---- MODULE Spec2Model ----
(***************************************************************************)
(* Model of helpers of src/util.ts (parseVersion, versionToString,         *)
(* compareVersion, compareVersions and its boolean wrappers, removeEmpty,  *)
(* scheduleTask, termProc) and of the ConfigurationReader exercised by the *)
(* configuration test suite.                                               *)
(*                                                                         *)
(* A JavaScript string is a sequence of one-character strings.  A call     *)
(* either returns a value or throws; both outcomes are values of the       *)
(* model (Return / Throw) so that a propagating exception is visible.      *)
(***************************************************************************)
EXTENDS Integers, Sequences, FiniteSets, TLC

VARIABLES
    op,          \* name of the function called last ("idle" before any call)
    args,        \* the arguments of that call
    ret,         \* its outcome: Return(value) or Throw(error)
    configData,  \* ConfigurationReader: the settings object
    updates,     \* the partial objects passed to updatePartial so far
    listeners,   \* the onChange subscriptions: the key, and when it was made
    fired,       \* the listener invocations by key: value passed, update number
    running,     \* event loop: "sync" while caller code is on the stack, else "idle"
    turn,        \* event loop: number of the current macrotask (0: the main script)
    immediates,  \* event loop: the setImmediate callbacks not yet run, oldest first
    microtasks,  \* event loop: the promise jobs not yet run, oldest first
    done,        \* event loop: the setImmediate callbacks that have run
    tasks,       \* the tasks given to scheduleTask, with their promises
    platform,    \* process.platform
    parent,      \* the parent of each process (0: reparented to init)
    alive,       \* the processes that have not exited
    denied,      \* the processes this process may not signal
    kstack,      \* the _killTree calls in progress, innermost last
    listed,      \* the children pgrep -P printed for each process visited
    signals,     \* the kill calls made so far: pid, signal and result
    termResult   \* termProc: "idle", "running", "true" or the error it rejects with

callVars == <<op, args, ret>>
configVars == <<configData, updates, listeners, fired>>
loopVars == <<running, turn, immediates, microtasks, done, tasks>>

killVars == <<platform, parent, alive, denied, kstack, listed, signals, termResult>>

vars == <<callVars, configVars, loopVars, killVars>>

----------------------------------------------------------------------------
(* Bounds of the model *)

\* longest input string handed to parseVersion
MaxLen == 7
\* largest field of a Version struct used as a comparison operand
MaxField == 2
\* largest field of a Version struct handed to versionToString
MaxFormatField == 11
\* largest parallelJobs value written to the configuration
MaxJobs == 1
\* longest sequence of updatePartial calls
MaxUpdates == 3
\* longest array handed to removeEmpty
MaxArrayLen == 3
\* most scheduleTask calls in a run
MaxTasks == 2
\* most other setImmediate callbacks in a run
MaxOthers == 2
\* number of processes in the tree of the child, the child included
MaxProcs == 3

----------------------------------------------------------------------------
(* Outcomes of a call *)

Return(v) == [kind |-> "return", value |-> v]
Throw(e) == [kind |-> "throw", error |-> e]
NoCall == [kind |-> "none"]

----------------------------------------------------------------------------
(* Characters and numbers *)

DigitChars == <<"0", "1", "2", "3", "4", "5", "6", "7", "8", "9">>

\* \d of a JavaScript regular expression: the ASCII digits
isDigit(c) == \E d \in 1..10 : DigitChars[d] = c

digitValue(c) == (CHOOSE d \in 1..10 : DigitChars[d] = c) - 1

\* parseInt on a string of decimal digits (the only strings \d+ captures)
RECURSIVE parseInt(_)
parseInt(ds) ==
    IF Len(ds) = 0 THEN 0
    ELSE parseInt(SubSeq(ds, 1, Len(ds) - 1)) * 10 + digitValue(ds[Len(ds)])

\* `${n}` for a non-negative integer n: its decimal digits, no leading zero
RECURSIVE numberToString(_)
numberToString(n) ==
    IF n < 10 THEN <<DigitChars[n + 1]>>
    ELSE numberToString(n \div 10) \o <<DigitChars[(n % 10) + 1]>>

----------------------------------------------------------------------------
\* parseVersion.  version_re is three groups of \d+ separated by literal dots,
\* followed by a fourth group that takes the rest of the line.

\* greedy \d*: the first index at or after i that does not hold a digit
RECURSIVE digitsEnd(_, _)
digitsEnd(s, i) ==
    IF i <= Len(s) /\ isDigit(s[i]) THEN digitsEnd(s, i + 1) ELSE i

\* greedy .*: the first index at or after i that holds a line terminator
RECURSIVE dotStarEnd(_, _)
dotStarEnd(s, i) ==
    IF i <= Len(s) /\ s[i] \notin {"\n", "\r"} THEN dotStarEnd(s, i + 1) ELSE i

NoMatch == [matched |-> FALSE]

\* The pattern tried at start index i.  Each \d+ is greedy; giving back a
\* digit never helps, because the character after a shortened run is a digit
\* and the pattern wants a dot there, so the greedy run is the only candidate.
\* slip: a lazy third group, which stops after one digit
matchAtLazyPatch(s, i) ==
    LET e1 == digitsEnd(s, i) IN
    IF e1 = i \/ e1 > Len(s) \/ s[e1] # "." THEN NoMatch
    ELSE LET e2 == digitsEnd(s, e1 + 1) IN
    IF e2 = e1 + 1 \/ e2 > Len(s) \/ s[e2] # "." THEN NoMatch
    ELSE LET e3 == digitsEnd(s, e2 + 1) IN
    IF e3 = e2 + 1 THEN NoMatch
    ELSE [matched |-> TRUE,
          index   |-> i,
          major   |-> SubSeq(s, i, e1 - 1),
          minor   |-> SubSeq(s, e1 + 1, e2 - 1),
          patch   |-> SubSeq(s, e2 + 1, e2 + 1),
          rest    |-> SubSeq(s, e2 + 2, dotStarEnd(s, e2 + 2) - 1)]

matchAt(s, i) ==
    LET e1 == digitsEnd(s, i) IN
    IF e1 = i \/ e1 > Len(s) \/ s[e1] # "." THEN NoMatch
    ELSE LET e2 == digitsEnd(s, e1 + 1) IN
    IF e2 = e1 + 1 \/ e2 > Len(s) \/ s[e2] # "." THEN NoMatch
    ELSE LET e3 == digitsEnd(s, e2 + 1) IN
    IF e3 = e2 + 1 THEN NoMatch
    ELSE [matched |-> TRUE,
          index   |-> i,
          major   |-> SubSeq(s, i, e1 - 1),
          minor   |-> SubSeq(s, e1 + 1, e2 - 1),
          patch   |-> SubSeq(s, e2 + 1, e3 - 1),
          rest    |-> SubSeq(s, e3, dotStarEnd(s, e3) - 1)]

\* RegExp.prototype.exec without the g flag: the match at the leftmost start
\* index that has one, or null
RECURSIVE execFrom(_, _)
execFrom(s, i) ==
    IF i > Len(s) THEN NoMatch
    ELSE LET m == matchAt(s, i) IN
         IF m.matched THEN m ELSE execFrom(s, i + 1)

version_re_exec(s) == execFrom(s, 1)

\* nls localize(key, message, ...args): the message with {0} bound to the argument
localize(k, m, arg0) == [key |-> k, format |-> m, args |-> <<arg0>>]

InvalidVersionString(m) == [class |-> "InvalidVersionString", message |-> m]

\* slip: no test of mat; the groups of a failed match default to '0'
parseVersionDefaultZero(str) ==
    LET mat == version_re_exec(str) IN
    IF ~mat.matched
    THEN Return([major |-> 0, minor |-> 0, patch |-> 0])
    ELSE Return([major |-> parseInt(mat.major),
                 minor |-> parseInt(mat.minor),
                 patch |-> parseInt(mat.patch)])

parseVersion(str) ==
    LET mat == version_re_exec(str) IN
    IF ~mat.matched
    THEN Throw(InvalidVersionString(
             localize("invalid.version.string", "Invalid version string {0}", str)))
    ELSE Return([major |-> parseInt(mat.major),
                 minor |-> parseInt(mat.minor),
                 patch |-> parseInt(mat.patch)])

\* slip: the minor fields are subtracted the wrong way round
compareVersionMinorReversed(va, vb) ==
    IF va.major # vb.major THEN va.major - vb.major
    ELSE IF va.minor # vb.minor THEN vb.minor - va.minor
    ELSE va.patch - vb.patch

\* compareVersion: the difference of the first fields that differ
compareVersion(va, vb) ==
    IF va.major # vb.major THEN va.major - vb.major
    ELSE IF va.minor # vb.minor THEN va.minor - vb.minor
    ELSE va.patch - vb.patch

\* slip: minor and patch written in the wrong order
versionToStringSwapped(ver) ==
    numberToString(ver.major) \o <<".">> \o numberToString(ver.patch)
        \o <<".">> \o numberToString(ver.minor)

versionToString(ver) ==
    numberToString(ver.major) \o <<".">> \o numberToString(ver.minor)
        \o <<".">> \o numberToString(ver.patch)

----------------------------------------------------------------------------
(* compareVersions and its wrappers *)

\* enum Ordering
Greater == 0
Equivalent == 1
Less == 2

\* An operand of type Version | string carries its run-time type
StringArg(s) == [type |-> "string", str |-> s]
VersionArg(v) == [type |-> "object", ver |-> v]
typeof(x) == x.type

\* `if (typeof x === 'string') { x = parseVersion(x); }`
asVersion(x) == IF typeof(x) = "string" THEN parseVersion(x.str) ELSE Return(x.ver)

\* slip: the patch fields are never compared
compareFieldsNoPatch(a, b) ==
    IF a.major > b.major THEN Greater
    ELSE IF a.major < b.major THEN Less
    ELSE IF a.minor > b.minor THEN Greater
    ELSE IF a.minor < b.minor THEN Less
    ELSE Equivalent

\* slip: the smaller patch also answers Greater
compareFieldsPatchTypo(a, b) ==
    IF a.major > b.major THEN Greater
    ELSE IF a.major < b.major THEN Less
    ELSE IF a.minor > b.minor THEN Greater
    ELSE IF a.minor < b.minor THEN Less
    ELSE IF a.patch > b.patch THEN Greater
    ELSE IF a.patch < b.patch THEN Greater
    ELSE Equivalent

\* slip: both "greater" tests come before the "less" tests
compareFieldsGreaterFirst(a, b) ==
    IF a.major > b.major THEN Greater
    ELSE IF a.minor > b.minor THEN Greater
    ELSE IF a.major < b.major THEN Less
    ELSE IF a.minor < b.minor THEN Less
    ELSE IF a.patch > b.patch THEN Greater
    ELSE IF a.patch < b.patch THEN Less
    ELSE Equivalent

compareFields(a, b) ==
    IF a.major > b.major THEN Greater
    ELSE IF a.major < b.major THEN Less
    ELSE IF a.minor > b.minor THEN Greater
    ELSE IF a.minor < b.minor THEN Less
    ELSE IF a.patch > b.patch THEN Greater
    ELSE IF a.patch < b.patch THEN Less
    ELSE Equivalent

\* slip: a failure to parse b is swallowed and b taken as 0.0.0
compareVersionsLenient(a, b) ==
    LET pa == asVersion(a) IN
    IF pa.kind = "throw" THEN pa
    ELSE LET pb == asVersion(b) IN
         IF pb.kind = "throw"
         THEN Return(compareFields(pa.value, [major |-> 0, minor |-> 0, patch |-> 0]))
         ELSE Return(compareFields(pa.value, pb.value))

\* slip: strings are parsed only when both operands are strings; the fields of
\* an unparsed string are undefined and every comparison with them is false
compareVersionsBothStrings(a, b) ==
    IF typeof(a) = typeof(b)
    THEN LET pa == asVersion(a) IN
         IF pa.kind = "throw" THEN pa
         ELSE LET pb == asVersion(b) IN
              IF pb.kind = "throw" THEN pb
              ELSE Return(compareFields(pa.value, pb.value))
    ELSE Return(Equivalent)

compareVersions(a, b) ==
    LET pa == asVersion(a) IN
    IF pa.kind = "throw" THEN pa
    ELSE LET pb == asVersion(b) IN
         IF pb.kind = "throw" THEN pb
         ELSE Return(compareFields(pa.value, pb.value))

versionGreater(lhs, rhs) ==
    LET c == compareVersions(lhs, rhs) IN
    IF c.kind = "throw" THEN c ELSE Return(c.value = Greater)

\* slip: Equivalent is not accepted
versionGreaterOrEqualsStrict(lhs, rhs) ==
    LET c == compareVersions(lhs, rhs) IN
    IF c.kind = "throw" THEN c ELSE Return(Greater = c.value)

versionGreaterOrEquals(lhs, rhs) ==
    LET c == compareVersions(lhs, rhs) IN
    IF c.kind = "throw" THEN c
    ELSE LET ordering == c.value IN
         Return((Greater = ordering) \/ (Equivalent = ordering))

versionEquals(lhs, rhs) ==
    LET c == compareVersions(lhs, rhs) IN
    IF c.kind = "throw" THEN c ELSE Return(c.value = Equivalent)

versionLess(lhs, rhs) ==
    LET c == compareVersions(lhs, rhs) IN
    IF c.kind = "throw" THEN c ELSE Return(c.value = Less)

versionLessOrEquals(lhs, rhs) ==
    LET c == compareVersions(lhs, rhs) IN
    IF c.kind = "throw" THEN c
    ELSE LET ordering == c.value IN
         Return((Less = ordering) \/ (Equivalent = ordering))

----------------------------------------------------------------------------
(* removeEmpty *)

\* JavaScript values, each named by its literal
JsValues == {"null", "undefined", "0", "1", "NaN", "''", "'a'", "false", "true"}

\* ToBoolean: the falsy values are null, undefined, 0, NaN, '' and false
ToBoolean(e) == e \notin {"null", "undefined", "0", "NaN", "''", "false"}

\* x.filter(e => e): the elements the callback is truthy for, in order
removeEmpty(x) == SelectSeq(x, ToBoolean)

Arrays == UNION {[1..n -> JsValues] : n \in 0..MaxArrayLen}

----------------------------------------------------------------------------
(* Inputs *)

Chars == {"0", "1", ".", "-"}

Strings == UNION {[1..n -> Chars] : n \in 0..MaxLen}

Versions == [major : 0..MaxField, minor : 0..MaxField, patch : 0..MaxField]

FormatVersions ==
    [major : 0..MaxFormatField, minor : 0..MaxFormatField, patch : 0..MaxFormatField]

\* strings with a prefix, a suffix, several digits, leading zeros, four groups
DecoratedStrings ==
    { <<"-", "1", ".", "2", ".", "0", "-", "1">>,
      <<"1", "0", ".", "0", ".", "2">>,
      <<"0", "1", ".", "1", ".", "1">>,
      <<"2", ".", "1", ".", "0", ".", "9">>,
      <<"2", " ", "1", ".", "2", ".", "1", "0">> }

\* strings without digits '.' digits '.' digits
MalformedStrings ==
    { << >>,
      <<"a", "b", "c">>,
      <<"1", ".", "2">>,
      <<"1", ".", "2", ".">>,
      <<"1", ".", ".", "2", ".">> }

OperandStrings ==
    {versionToString(v) : v \in Versions} \cup DecoratedStrings \cup MalformedStrings

Operands ==
    {VersionArg(v) : v \in Versions} \cup {StringArg(s) : s \in OperandStrings}

----------------------------------------------------------------------------
(* ConfigurationReader, as the configuration test suite uses it *)

\* the settings the tests read and write
Keys == {"parallelJobs", "buildDirectory"}

\* the settings object createConfig passes to the constructor
InitialConfig == [parallelJobs |-> 0, buildDirectory |-> ""]

EmptyObject == [k \in {} |-> 0]

JobsValues == 0..MaxJobs
DirectoryValues == {"", "foo"}

\* Partial<ExtensionConfigurationSettings>: any subset of the keys, with values
Partials ==
    {EmptyObject}
        \cup {[parallelJobs |-> j] : j \in JobsValues}
        \cup {[buildDirectory |-> d] : d \in DirectoryValues}
        \cup {[parallelJobs |-> j, buildDirectory |-> d] :
                  j \in JobsValues, d \in DirectoryValues}

\* slip: the partial object is laid over the constructor's settings, not over
\* the current ones
updatePartialOverDefaults(data, newData) ==
    [k \in DOMAIN data |->
        IF k \in DOMAIN newData THEN newData[k] ELSE InitialConfig[k]]

\* slip: the properties are copied the wrong way round, so stored values win
updatePartialKeepsOld(data, newData) == data

\* updatePartial(newData): the own properties of newData are copied onto the
\* settings object; the other settings stay
updatePartial(data, newData) ==
    [k \in DOMAIN data |-> IF k \in DOMAIN newData THEN newData[k] ELSE data[k]]

\* the getter of a setting
getSetting(data, key) == data[key]

\* slip: one emitter for all keys, so every listener hears every update
changeEventsAnyKey(data, newData, subscribed, n) ==
    [k \in DOMAIN data |->
        IF k \in subscribed
        THEN {[value |-> updatePartial(data, newData)[k], at |-> n]}
        ELSE {}]

\* the listener invocations of the n-th updatePartial, by key: one for each
\* subscribed key of the partial object whose value changes, with the new value
changeEvents(data, newData, subscribed, n) ==
    [k \in DOMAIN data |->
        IF k \in subscribed \cap DOMAIN newData /\ newData[k] # data[k]
        THEN {[value |-> newData[k], at |-> n]}
        ELSE {}]

ConfigInit ==
    /\ configData = InitialConfig
    /\ updates = << >>
    /\ listeners = {}
    /\ fired = [k \in Keys |-> {}]

SubscribedKeys == {l.key : l \in listeners}

UpdatePartial ==
    /\ Len(updates) < MaxUpdates
    /\ \E newData \in Partials :
           /\ configData' = updatePartial(configData, newData)
           /\ updates' = Append(updates, newData)
           /\ fired' = [k \in Keys |-> fired[k] \cup
                  changeEvents(configData, newData, SubscribedKeys, Len(updates) + 1)[k]]
           /\ op' = "updatePartial"
           /\ args' = <<newData>>
           /\ ret' = NoCall
           /\ UNCHANGED <<listeners, loopVars, killVars>>

ReadSetting ==
    \E key \in Keys :
        /\ op' = "get"
        /\ args' = <<key>>
        /\ ret' = Return(getSetting(configData, key))
        /\ UNCHANGED <<configVars, loopVars, killVars>>

\* onChange(key, cb): cb is subscribed to the changes of one setting
OnChange ==
    \E k \in Keys \ SubscribedKeys :
        /\ listeners' = listeners \cup {[key |-> k, since |-> Len(updates)]}
        /\ op' = "onChange"
        /\ args' = <<k>>
        /\ ret' = NoCall
        /\ UNCHANGED <<configData, updates, fired, loopVars, killVars>>

----------------------------------------------------------------------------
(* scheduleTask and scheduleAsyncTask on the Node event loop.  One macrotask *)
(* runs at a time; when its synchronous code ends the promise jobs are run   *)
(* until none is left, and then the oldest setImmediate callback starts the  *)
(* next turn.                                                                *)

\* what a task does when called: return a value, or throw an error
TaskOutcomes == [kind : {"return", "throw"}, value : {1, 2}]

Pending == [state |-> "pending", value |-> 0]
FulfilledWith(v) == [state |-> "fulfilled", value |-> v]
RejectedWith(e) == [state |-> "rejected", value |-> e]

\* Promise.resolve(task()), or Promise.reject(e) when task() throws
callTask(outcome) ==
    IF outcome.kind = "return" THEN FulfilledWith(outcome.value) ELSE RejectedWith(outcome.value)

TaskCallback(t) == [type |-> "task", id |-> t]
OtherCallback(o) == [type |-> "other", id |-> o]
Job(name, t) == [job |-> name, id |-> t]

\* setImmediate(callback): the callback joins the end of the queue
setImmediate(queue, callback) == Append(queue, callback)

ElementsOf(queue) == {queue[i] : i \in 1..Len(queue)}

LoopInit ==
    /\ running = "sync"
    /\ turn = 0
    /\ immediates = << >>
    /\ microtasks = << >>
    /\ done = {}
    /\ tasks = << >>

\* slip: scheduleTask without scheduleAsyncTask, the task called on the spot
ScheduleTaskOnTheSpot ==
    /\ running = "sync"
    /\ Len(tasks) < MaxTasks
    /\ \E outcome \in TaskOutcomes :
           tasks' = Append(tasks, [outcome |-> outcome,
                                   scheduled |-> turn,
                                   ahead |-> ElementsOf(immediates),
                                   runs |-> 1,
                                   ran |-> turn,
                                   inner |-> callTask(outcome),
                                   adopted |-> FALSE,
                                   outer |-> callTask(outcome)])
    /\ UNCHANGED <<running, turn, immediates, microtasks, done, callVars, configVars, killVars>>

\* scheduleTask(task), called by synchronous code.  scheduleAsyncTask makes the
\* inner promise, whose executor hands the callback to setImmediate, and
\* returns it from an async function: the outer promise, which the caller
\* gets, is resolved with the inner one by a promise job.
ScheduleTask ==
    /\ running = "sync"
    /\ Len(tasks) < MaxTasks
    /\ \E outcome \in TaskOutcomes :
           tasks' = Append(tasks, [outcome |-> outcome,
                                   scheduled |-> turn,
                                   ahead |-> ElementsOf(immediates),
                                   runs |-> 0,
                                   ran |-> 0,
                                   inner |-> Pending,
                                   adopted |-> FALSE,
                                   outer |-> Pending])
    /\ immediates' = setImmediate(immediates, TaskCallback(Len(tasks) + 1))
    /\ microtasks' = Append(microtasks, Job("adopt", Len(tasks) + 1))
    /\ UNCHANGED <<running, turn, done, callVars, configVars, killVars>>

OthersQueued ==
    Cardinality({c \in ElementsOf(immediates) \cup done : c.type = "other"})

\* another pending task: synchronous code calls setImmediate with its own callback
SetImmediateOther ==
    /\ running = "sync"
    /\ OthersQueued < MaxOthers
    /\ immediates' = setImmediate(immediates, OtherCallback(OthersQueued + 1))
    /\ UNCHANGED <<running, turn, microtasks, done, tasks, callVars, configVars, killVars>>

\* the synchronous code of the current macrotask returns
EndSync ==
    /\ running = "sync"
    /\ running' = "idle"
    /\ UNCHANGED <<turn, immediates, microtasks, done, tasks, callVars, configVars, killVars>>

\* the promise jobs a settled inner promise owes: the outer promise follows it
\* once it has subscribed
Follow(t, adopted) == IF adopted THEN <<Job("settle", t)>> ELSE << >>

\* one promise job
runJob(j, ts) ==
    LET t == j.id
        task == ts[t]
    IN CASE j.job = "adopt" ->
              \* the outer promise subscribes to the inner one
              [tasks |-> [ts EXCEPT ![t].adopted = TRUE],
               jobs  |-> IF task.inner.state = "pending" THEN << >>
                         ELSE <<Job("settle", t)>>]
         [] j.job = "then" ->
              \* the reaction of .then(resolve): resolve on a value; a
              \* rejection passes on to .catch(reject)
              IF task.outcome.kind = "return"
              THEN [tasks |-> [ts EXCEPT ![t].inner = FulfilledWith(task.outcome.value)],
                    jobs  |-> Follow(t, task.adopted) \o <<Job("catch", t)>>]
              ELSE [tasks |-> ts, jobs |-> <<Job("catch", t)>>]
         [] j.job = "catch" ->
              \* the reaction of .catch(reject): reject on an error
              IF task.outcome.kind = "throw"
              THEN [tasks |-> [ts EXCEPT ![t].inner = RejectedWith(task.outcome.value)],
                    jobs  |-> Follow(t, task.adopted)]
              ELSE [tasks |-> ts, jobs |-> << >>]
         [] j.job = "settle" ->
              \* the outer promise takes the state of the inner one
              [tasks |-> [ts EXCEPT ![t].outer = task.inner], jobs |-> << >>]

RunMicrotask ==
    /\ running = "idle"
    /\ microtasks # << >>
    /\ LET r == runJob(Head(microtasks), tasks) IN
           /\ tasks' = r.tasks
           /\ microtasks' = Tail(microtasks) \o r.jobs
    /\ UNCHANGED <<running, turn, immediates, done, callVars, configVars, killVars>>

\* the next turn: the oldest setImmediate callback runs.  The callback of
\* scheduleAsyncTask calls the task and chains .then(resolve).catch(reject) on
\* the promise of its result; another callback is caller code.
RunImmediate ==
    /\ running = "idle"
    /\ microtasks = << >>
    /\ immediates # << >>
    /\ LET callback == Head(immediates) IN
           /\ immediates' = Tail(immediates)
           /\ turn' = turn + 1
           /\ done' = done \cup {callback}
           /\ IF callback.type = "task"
              THEN /\ tasks' = [tasks EXCEPT ![callback.id].runs = @ + 1,
                                             ![callback.id].ran = turn + 1]
                   /\ microtasks' = <<Job("then", callback.id)>>
                   /\ running' = "idle"
              ELSE /\ running' = "sync"
                   /\ UNCHANGED <<tasks, microtasks>>
    /\ UNCHANGED <<callVars, configVars, killVars>>

NextSchedule ==
    \/ ScheduleTask
    \/ SetImmediateOther
    \/ EndSync
    \/ RunMicrotask
    \/ RunImmediate

----------------------------------------------------------------------------
(* termProc and _killTree.  The child has pid 1; its descendants have the   *)
(* pids 2..MaxProcs.  Processes exit on their own at any time, and the      *)
(* children of a process that exits are reparented to init.                 *)

Pids == 1..MaxProcs

\* the process trees: every process but the child has a parent in the tree
Trees == {f \in [2..MaxProcs -> Pids] : \A p \in 2..MaxProcs : f[p] < p}

Platforms == {"linux", "win32"}

RECURSIVE Ascending(_)
Ascending(S) ==
    IF S = {} THEN << >>
    ELSE LET m == CHOOSE x \in S : \A y \in S : x <= y IN <<m>> \o Ascending(S \ {m})

\* pgrep -P pid: the pids of the live children of pid, one a line, parsed
pgrep(pid, par, live) == Ascending({c \in live \ {1} : par[c] = pid})

\* process.kill(pid, 'SIGINT'): done, or the code of the error it throws
kill(pid, live, noPermission) ==
    IF pid \notin live THEN "ESRCH"
    ELSE IF pid \in noPermission THEN "EPERM"
    ELSE "ok"

\* slip: catch without a test of e.code
caughtAlways(code) == TRUE

\* the catch block: ESRCH is dropped, any other error is thrown again
caught(code) == code = "ESRCH"

Frame(pid) == [pid |-> pid, phase |-> "pgrep", children |-> << >>, next |-> 1]

KillInit(tree, noPermission, plat) ==
    /\ platform = plat
    /\ parent = tree
    /\ alive = Pids
    /\ denied = noPermission
    /\ kstack = << >>
    /\ listed = [p \in Pids |-> << >>]
    /\ signals = << >>
    /\ termResult = "idle"

Top == kstack[Len(kstack)]
Pop == SubSeq(kstack, 1, Len(kstack) - 1)
ReplaceTop(f) == Pop \o <<f>>

\* termProc(child) is called: _killTree(child.pid) begins.  On Windows it
\* starts taskkill and returns, and termProc resolves.
TermProc ==
    /\ termResult = "idle"
    /\ IF platform # "win32"
       THEN /\ kstack' = <<Frame(1)>>
            /\ termResult' = "running"
            /\ UNCHANGED signals
       ELSE /\ signals' = Append(signals, [pid |-> 1, signal |-> "taskkill /T /F", result |-> "ok"])
            /\ termResult' = "true"
            /\ UNCHANGED kstack
    /\ UNCHANGED <<platform, parent, alive, denied, listed, callVars, configVars, loopVars>>

\* the innermost call lists the children of its pid
ListChildren ==
    /\ kstack # << >>
    /\ Top.phase = "pgrep"
    /\ LET children == pgrep(Top.pid, parent, alive) IN
           /\ listed' = [listed EXCEPT ![Top.pid] = children]
           /\ kstack' = ReplaceTop([Top EXCEPT !.phase = "loop", !.children = children])
    /\ UNCHANGED <<platform, parent, alive, denied, signals, termResult,
                   callVars, configVars, loopVars>>

\* the loop over the children: _killTree(other) for the next one
VisitChild ==
    /\ kstack # << >>
    /\ Top.phase = "loop"
    /\ Top.next <= Len(Top.children)
    /\ LET other == Top.children[Top.next] IN
           kstack' = IF other # 0
                     THEN ReplaceTop([Top EXCEPT !.next = @ + 1]) \o <<Frame(other)>>
                     ELSE ReplaceTop([Top EXCEPT !.next = @ + 1])
    /\ UNCHANGED <<platform, parent, alive, denied, listed, signals, termResult,
                   callVars, configVars, loopVars>>

\* after the loop the call signals its own pid and returns; an error that is
\* not caught rejects every call in progress, and termProc with them
SignalSelf ==
    /\ kstack # << >>
    /\ Top.phase = "loop"
    /\ Top.next > Len(Top.children)
    /\ LET code == kill(Top.pid, alive, denied) IN
           /\ signals' = Append(signals, [pid |-> Top.pid, signal |-> "SIGINT", result |-> code])
           /\ IF code = "ok" \/ caught(code)
              THEN /\ kstack' = Pop
                   /\ termResult' = IF Len(kstack) = 1 THEN "true" ELSE termResult
              ELSE /\ kstack' = << >>
                   /\ termResult' = code
    /\ UNCHANGED <<platform, parent, alive, denied, listed, callVars, configVars, loopVars>>

\* a process exits; init adopts its children
Exit ==
    \E p \in alive :
        /\ alive' = alive \ {p}
        /\ parent' = [c \in DOMAIN parent |-> IF parent[c] = p THEN 0 ELSE parent[c]]
        /\ UNCHANGED <<platform, denied, kstack, listed, signals, termResult,
                       callVars, configVars, loopVars>>

NextKill ==
    \/ TermProc
    \/ ListChildren
    \/ VisitChild
    \/ SignalSelf
    \/ Exit

InitKill ==
    /\ op = "idle"
    /\ args = << >>
    /\ ret = NoCall
    /\ ConfigInit
    /\ LoopInit
    /\ \E tree \in Trees, noPermission \in SUBSET Pids, plat \in Platforms :
           KillInit(tree, noPermission, plat)

----------------------------------------------------------------------------
(* State machine of the version helpers.  The helpers are pure, so a       *)
(* behaviour is one call: from the idle state any helper is applied to any *)
(* input, and the state records the call and its outcome.                  *)

Init ==
    /\ op = "idle"
    /\ args = << >>
    /\ ret = NoCall
    /\ ConfigInit
    /\ LoopInit
    /\ KillInit([p \in 2..MaxProcs |-> 1], {}, "linux")

Call(name, arguments, outcome) ==
    /\ op' = name
    /\ args' = arguments
    /\ ret' = outcome
    /\ UNCHANGED <<configVars, loopVars, killVars>>

CallParseVersion ==
    /\ op = "idle"
    /\ \E str \in Strings :
           Call("parseVersion", <<str>>, parseVersion(str))

CallVersionToString ==
    /\ op = "idle"
    /\ \E ver \in FormatVersions :
           Call("versionToString", <<ver>>, Return(versionToString(ver)))

CallCompareVersions ==
    /\ op = "idle"
    /\ \E a \in Operands, b \in Operands :
           Call("compareVersions", <<a, b>>, compareVersions(a, b))

CallVersionGreater ==
    /\ op = "idle"
    /\ \E lhs \in Operands, rhs \in Operands :
           Call("versionGreater", <<lhs, rhs>>, versionGreater(lhs, rhs))

CallVersionGreaterOrEquals ==
    /\ op = "idle"
    /\ \E lhs \in Operands, rhs \in Operands :
           Call("versionGreaterOrEquals", <<lhs, rhs>>, versionGreaterOrEquals(lhs, rhs))

CallVersionEquals ==
    /\ op = "idle"
    /\ \E lhs \in Operands, rhs \in Operands :
           Call("versionEquals", <<lhs, rhs>>, versionEquals(lhs, rhs))

CallVersionLess ==
    /\ op = "idle"
    /\ \E lhs \in Operands, rhs \in Operands :
           Call("versionLess", <<lhs, rhs>>, versionLess(lhs, rhs))

CallVersionLessOrEquals ==
    /\ op = "idle"
    /\ \E lhs \in Operands, rhs \in Operands :
           Call("versionLessOrEquals", <<lhs, rhs>>, versionLessOrEquals(lhs, rhs))

CallCompareVersion ==
    /\ op = "idle"
    /\ \E va \in Versions, vb \in Versions :
           Call("compareVersion", <<va, vb>>, Return(compareVersion(va, vb)))

CallRemoveEmpty ==
    /\ op = "idle"
    /\ \E x \in Arrays :
           Call("removeEmpty", <<x>>, Return(removeEmpty(x)))

Next ==
    \/ CallParseVersion
    \/ CallVersionToString
    \/ CallCompareVersions
    \/ CallVersionGreater
    \/ CallVersionGreaterOrEquals
    \/ CallVersionEquals
    \/ CallVersionLess
    \/ CallVersionLessOrEquals
    \/ CallCompareVersion
    \/ CallRemoveEmpty

Spec == Init /\ [][Next]_vars

\* State machine of the configuration: updates and reads in any order
NextConfig ==
    \/ UpdatePartial
    \/ ReadSetting

SpecConfig == Init /\ [][NextConfig]_vars

\* State machine of the configuration with listeners: subscriptions and updates
NextListen ==
    \/ OnChange
    \/ UpdatePartial

SpecListen == Init /\ [][NextListen]_vars

\* State machine of the event loop
SpecSchedule == Init /\ [][NextSchedule]_vars

\* State machine of termProc, for every tree, platform and set of permissions
SpecKill == InitKill /\ [][NextKill]_vars

----------------------------------------------------------------------------
(* Vocabulary of the properties *)

CompareOps ==
    {"compareVersions", "versionGreater", "versionGreaterOrEquals",
     "versionEquals", "versionLess", "versionLessOrEquals"}

\* an operand is valid when it is a Version or a string parseVersion accepts
Valid(x) == asVersion(x).kind = "return"
Triple(x) == asVersion(x).value

ValidPair == Valid(args[1]) /\ Valid(args[2])

MaxOf(S) == CHOOSE m \in S : \A x \in S : x <= m

\* the position of a triple in the lexicographic order, as one number
Weight(v, base) == (v.major * base + v.minor) * base + v.patch

----------------------------------------------------------------------------
(* Properties of compareVersions *)

\* C1: on valid operands compareVersions is the lexicographic comparison of
\* (major, minor, patch): decided by major if the majors differ, else by minor
\* if the minors differ, else by patch; Equivalent exactly when all three
\* fields are equal.
C1_Lexicographic ==
    (op = "compareVersions" /\ ValidPair) =>
        LET a == Triple(args[1])
            b == Triple(args[2])
            base == 1 + MaxOf({a.major, a.minor, a.patch, b.major, b.minor, b.patch})
        IN /\ ret.kind = "return"
           /\ (ret.value = Greater) <=> (Weight(a, base) > Weight(b, base))
           /\ (ret.value = Less) <=> (Weight(a, base) < Weight(b, base))
           /\ (ret.value = Equivalent) <=>
                  (a.major = b.major /\ a.minor = b.minor /\ a.patch = b.patch)
           /\ a.major # b.major => ((ret.value = Greater) <=> (a.major > b.major))
           /\ (a.major = b.major /\ a.minor # b.minor) =>
                  ((ret.value = Greater) <=> (a.minor > b.minor))
           /\ (a.major = b.major /\ a.minor = b.minor /\ a.patch # b.patch) =>
                  ((ret.value = Greater) <=> (a.patch > b.patch))

C1_Witness ==
    /\ op = "compareVersions" /\ ValidPair
    /\ typeof(args[1]) = "string"
    /\ Triple(args[1]).major = Triple(args[2]).major
    /\ Triple(args[1]).minor = Triple(args[2]).minor
    /\ Triple(args[1]).patch = 10 /\ Triple(args[2]).patch = 2
    /\ ret = Return(Greater)

\* C2: on valid operands exactly one of Greater, Equivalent, Less is returned,
\* and the call with the operands exchanged returns Less exactly when this one
\* returns Greater (and Greater exactly when this one returns Less).
C2_Antisymmetric ==
    (op = "compareVersions" /\ ValidPair) =>
        /\ ret.kind = "return"
        /\ ret.value \in {Greater, Equivalent, Less}
        /\ (ret.value = Greater) <=> (compareVersions(args[2], args[1]) = Return(Less))
        /\ (ret.value = Less) <=> (compareVersions(args[2], args[1]) = Return(Greater))

C2_Witness ==
    /\ op = "compareVersions" /\ ValidPair
    /\ ret = Return(Greater)
    /\ compareVersions(args[2], args[1]) = Return(Less)

\* C3: compareVersions is transitive: if a is Greater than b and b is Greater
\* than c, then a is Greater than c.
C3_Transitive ==
    (op = "compareVersions" /\ ret = Return(Greater)) =>
        \A c \in Operands :
            compareVersions(args[2], c) = Return(Greater) =>
                compareVersions(args[1], c) = Return(Greater)

C3_Witness ==
    /\ op = "compareVersions" /\ ret = Return(Greater)
    /\ \E c \in Operands :
           /\ compareVersions(args[2], c) = Return(Greater)
           /\ compareVersions(args[1], c) = Return(Greater)
           /\ Triple(args[1]).major = Triple(args[2]).major
           /\ Triple(args[2]).major > Triple(c).major

\* C6: when either operand of compareVersions or of one of its five wrappers
\* is a string parseVersion rejects, the call throws InvalidVersionString and
\* returns nothing, whatever the other operand is.
Rejected(x) == typeof(x) = "string" /\ parseVersion(x.str).kind = "throw"

C6_ParseFailurePropagates ==
    (op \in CompareOps /\ (Rejected(args[1]) \/ Rejected(args[2]))) =>
        /\ ret.kind = "throw"
        /\ ret.error.class = "InvalidVersionString"
        /\ "value" \notin DOMAIN ret

C6_Witness ==
    /\ op = "versionLessOrEquals"
    /\ ~Rejected(args[1]) /\ Rejected(args[2])
    /\ ret.kind = "throw"

\* C7: on valid operands each wrapper answers as compareVersions does:
\* versionGreater iff Greater, versionEquals iff Equivalent, versionLess iff
\* Less, versionGreaterOrEquals iff Greater or Equivalent, versionLessOrEquals
\* iff Less or Equivalent.
C7_WrappersAgree ==
    (op \in CompareOps \ {"compareVersions"} /\ ValidPair) =>
        LET c == compareVersions(args[1], args[2]).value IN
        /\ ret.kind = "return"
        /\ ret.value \in BOOLEAN
        /\ op = "versionGreater" => (ret.value <=> c = Greater)
        /\ op = "versionEquals" => (ret.value <=> c = Equivalent)
        /\ op = "versionLess" => (ret.value <=> c = Less)
        /\ op = "versionGreaterOrEquals" => (ret.value <=> c \in {Greater, Equivalent})
        /\ op = "versionLessOrEquals" => (ret.value <=> c \in {Less, Equivalent})

C7_Witness ==
    /\ op = "versionGreaterOrEquals" /\ ValidPair
    /\ compareVersions(args[1], args[2]) = Return(Equivalent)
    /\ ret = Return(TRUE)

\* C8: parsing the string versionToString gives for a Version returns that
\* Version, field by field.
C8_RoundTrip ==
    op = "versionToString" =>
        LET back == parseVersion(ret.value) IN
        /\ back.kind = "return"
        /\ back.value.major = args[1].major
        /\ back.value.minor = args[1].minor
        /\ back.value.patch = args[1].patch

C8_Witness ==
    /\ op = "versionToString"
    /\ args[1] = [major |-> 10, minor |-> 0, patch |-> 11]
    /\ ret = Return(<<"1", "0", ".", "0", ".", "1", "1">>)

\* C9: a valid string operand and the Version it parses to give the same
\* comparison result, on either side; a string compared with its own parsed
\* Version is Equivalent.
Parsed(x) == VersionArg(Triple(x))

C9_StringStructEquivalence ==
    (op = "compareVersions" /\ ValidPair) =>
        /\ ret = compareVersions(Parsed(args[1]), args[2])
        /\ ret = compareVersions(args[1], Parsed(args[2]))
        /\ compareVersions(args[1], Parsed(args[1])) = Return(Equivalent)
        /\ compareVersions(Parsed(args[1]), args[1]) = Return(Equivalent)

C9_Witness ==
    /\ op = "compareVersions"
    /\ args[1] = StringArg(<<"-", "1", ".", "2", ".", "0", "-", "1">>)
    /\ args[2] = VersionArg([major |-> 1, minor |-> 2, patch |-> 0])
    /\ ret = Return(Equivalent)

----------------------------------------------------------------------------
(* Properties of parseVersion *)

Digits == {"0", "1", "2", "3", "4", "5", "6", "7", "8", "9"}

\* s[i..j] is a non-empty run of digits
AllDigits(s, i, j) == i <= j /\ \A n \in i..j : s[n] \in Digits

\* the dots at j and k delimit digits '.' digits '.' digits
DotPair(s, j, k) ==
    /\ j < k /\ s[j] = "." /\ s[k] = "."
    /\ AllDigits(s, j + 1, k - 1)
    /\ j > 1 /\ s[j - 1] \in Digits
    /\ k < Len(s) /\ s[k + 1] \in Digits

ContainsVersion(s) == \E j, k \in 1..Len(s) : DotPair(s, j, k)

\* the maximal run of digits that ends at e, and the one that begins at b
RunStart(s, e) == CHOOSE i \in 1..e : AllDigits(s, i, e) /\ (i = 1 \/ s[i - 1] \notin Digits)
RunEnd(s, b) ==
    CHOOSE j \in b..Len(s) : AllDigits(s, b, j) /\ (j = Len(s) \/ s[j + 1] \notin Digits)

RECURSIVE Pow10(_)
Pow10(n) == IF n = 0 THEN 1 ELSE 10 * Pow10(n - 1)

RECURSIVE DecimalValue(_)
DecimalValue(ds) ==
    IF ds = << >> THEN 0
    ELSE (CHOOSE d \in 0..9 : DigitChars[d + 1] = Head(ds)) * Pow10(Len(ds) - 1)
             + DecimalValue(Tail(ds))

Number(s, i, j) == DecimalValue(SubSeq(s, i, j))

\* the first dot that opens digits '.' digits '.' digits, and the dot closing it
FirstDot(s) ==
    CHOOSE j \in 1..Len(s) :
        /\ \E k \in 1..Len(s) : DotPair(s, j, k)
        /\ \A j2 \in 1..(j - 1) : \A k \in 1..Len(s) : ~DotPair(s, j2, k)
SecondDot(s) == CHOOSE k \in 1..Len(s) : DotPair(s, FirstDot(s), k)

\* where each maximal run of digits of s begins, and the n-th of them
GroupStarts(s) == {i \in 1..Len(s) : s[i] \in Digits /\ (i = 1 \/ s[i - 1] \notin Digits)}
NthGroupStart(s, n) ==
    CHOOSE i \in GroupStarts(s) : Cardinality({g \in GroupStarts(s) : g < i}) = n - 1
NthGroup(s, n) == Number(s, NthGroupStart(s, n), RunEnd(s, NthGroupStart(s, n)))

\* C4 as stated: a string that contains digits '.' digits '.' digits parses to
\* the first three numeric groups of the string, and the text after the third
\* group does not matter.
C4_LeadingGroupsOfString ==
    (op = "parseVersion" /\ ContainsVersion(args[1])) =>
        LET s == args[1] IN
        /\ ret = Return([major |-> NthGroup(s, 1),
                         minor |-> NthGroup(s, 2),
                         patch |-> NthGroup(s, 3)])
        /\ ret = parseVersion(SubSeq(s, 1, RunEnd(s, SecondDot(s) + 1)))

\* C4 (amended): a string that contains digits '.' digits '.' digits parses to
\* the three numeric groups of the leftmost, longest such substring, read in
\* base 10; the text after its third group is discarded and does not matter.
C4_GroupsOfLeftmostMatch ==
    (op = "parseVersion" /\ ContainsVersion(args[1])) =>
        LET s == args[1]
            j == FirstDot(s)
            k == SecondDot(s)
            e == RunEnd(s, k + 1)
        IN /\ ret = Return([major |-> Number(s, RunStart(s, j - 1), j - 1),
                            minor |-> Number(s, j + 1, k - 1),
                            patch |-> Number(s, k + 1, e)])
           /\ ret = parseVersion(SubSeq(s, 1, e))

C4_Witness ==
    /\ op = "parseVersion"
    /\ args[1] = <<"0", "-", "1", ".", "0", ".", "1">>
    /\ ret = Return([major |-> 1, minor |-> 0, patch |-> 1])

\* C5: a string that contains no digits '.' digits '.' digits makes parseVersion
\* throw InvalidVersionString, with the string in the message, and return nothing.
C5_InvalidVersionString ==
    (op = "parseVersion" /\ ~ContainsVersion(args[1])) =>
        /\ ret.kind = "throw"
        /\ "value" \notin DOMAIN ret
        /\ ret.error.class = "InvalidVersionString"
        /\ ret.error.message.args = <<args[1]>>

C5_Witness ==
    /\ op = "parseVersion"
    /\ args[1] = <<"1", ".", "0", ".", "-", "1">>
    /\ ret.kind = "throw"
    /\ ret.error.message.args = <<args[1]>>

----------------------------------------------------------------------------
(* Properties of the ConfigurationReader *)

\* the updatePartial calls so far whose partial object contained the key
CallsWith(key) == {i \in 1..Len(updates) : key \in DOMAIN updates[i]}

\* C10: reading a setting returns the value given for its key by the most
\* recent updatePartial call that contained the key, or the value given at
\* construction when no call contained it.
C10_ReadsLastUpdate ==
    op = "get" =>
        LET key == args[1] IN
        ret = Return(IF CallsWith(key) = {}
                     THEN InitialConfig[key]
                     ELSE updates[MaxOf(CallsWith(key))][key])

C10_Witness ==
    /\ op = "get" /\ args = <<"parallelJobs">>
    /\ Len(updates) = 3
    /\ updates[1] = [parallelJobs |-> 0, buildDirectory |-> "foo"]
    /\ updates[2] = [parallelJobs |-> 1]
    /\ updates[3] = [buildDirectory |-> ""]
    /\ ret = Return(1)

----------------------------------------------------------------------------
(* Properties of removeEmpty and compareVersion *)

NotNullish(e) == e \notin {"null", "undefined"}

\* C14: removeEmpty returns exactly the elements that are neither null nor
\* undefined, in their original order; 0, the empty string and false are kept.
C14_RemovesOnlyNullAndUndefined ==
    op = "removeEmpty" => ret = Return(SelectSeq(args[1], NotNullish))

\* C16: on Version structs compareVersion and compareVersions agree:
\* compareVersion is positive iff compareVersions is Greater, negative iff
\* Less, and zero iff Equivalent.
C16_ComparatorsAgree ==
    op = "compareVersion" =>
        LET c == compareVersions(VersionArg(args[1]), VersionArg(args[2])) IN
        /\ c.kind = "return"
        /\ (ret.value > 0) <=> (c.value = Greater)
        /\ (ret.value < 0) <=> (c.value = Less)
        /\ (ret.value = 0) <=> (c.value = Equivalent)

C16_Witness ==
    /\ op = "compareVersion"
    /\ args[1].major = args[2].major
    /\ args[1].minor < args[2].minor
    /\ args[1].patch > args[2].patch
    /\ ret.value < 0

----------------------------------------------------------------------------
(* Properties of updatePartial and onChange *)

\* the partial object of the updatePartial call a step makes
NewData == updates'[Len(updates')]

\* C11: an updatePartial call leaves every setting whose key is not in the
\* partial object with the value it had before the call.
C11_OtherSettingsKept ==
    [][updates' # updates =>
           \A k \in Keys \ DOMAIN NewData : configData'[k] = configData[k]]_vars

C11_Witness ==
    /\ updates = <<[parallelJobs |-> 1, buildDirectory |-> "foo"],
                   [buildDirectory |-> ""]>>
    /\ configData = [parallelJobs |-> 1, buildDirectory |-> ""]

\* the invocations one updatePartial call makes of the listener of key k
Invocations(k) == fired'[k] \ fired[k]

\* C12: a listener fires only for its own property: an updatePartial that
\* changes the listener's key invokes it, once, with the new value, and an
\* updatePartial whose partial object holds only other keys does not invoke it.
C12_ListenerFiresForItsKey ==
    [][updates' # updates =>
           \A l \in listeners :
               /\ (l.key \in DOMAIN NewData /\ NewData[l.key] # configData[l.key]) =>
                      Invocations(l.key) =
                          {[value |-> NewData[l.key], at |-> Len(updates')]}
               /\ l.key \notin DOMAIN NewData => Invocations(l.key) = {}]_vars

C12_Witness ==
    /\ listeners = {[key |-> "parallelJobs", since |-> 0]}
    /\ updates = <<[buildDirectory |-> "foo"], [parallelJobs |-> 1]>>
    /\ fired = [parallelJobs |-> {[value |-> 1, at |-> 2]}, buildDirectory |-> {}]

----------------------------------------------------------------------------
(* Properties of scheduleTask *)

Quiescent == running = "idle" /\ microtasks = << >> /\ immediates = << >>

\* C13: scheduleTask never runs the task inside the call: the task runs in a
\* later turn of the event loop, after the caller's synchronous code and the
\* setImmediate callbacks already pending; it runs exactly once; and the
\* returned promise is fulfilled with the value the task returned, or rejected
\* with the error it threw.
C13_TaskRunsLaterOnce ==
    \A t \in 1..Len(tasks) :
        LET task == tasks[t] IN
        /\ task.runs <= 1
        /\ (task.scheduled = turn /\ running = "sync") => task.runs = 0
        /\ task.runs = 1 => (task.ran > task.scheduled /\ task.ahead \subseteq done)
        /\ task.outer.state # "pending" =>
               /\ task.runs = 1
               /\ task.outer.state =
                      (IF task.outcome.kind = "return" THEN "fulfilled" ELSE "rejected")
               /\ task.outer.value = task.outcome.value
        /\ Quiescent => (task.runs = 1 /\ task.outer.state # "pending")

C13_Witness ==
    /\ Quiescent
    /\ Len(tasks) = 2
    /\ tasks[1].outcome = [kind |-> "return", value |-> 2]
    /\ tasks[1].outer = FulfilledWith(2)
    /\ tasks[1].ahead = {OtherCallback(1)}
    /\ tasks[2].outcome = [kind |-> "throw", value |-> 1]
    /\ tasks[2].outer = RejectedWith(1)
    /\ tasks[2].scheduled = 1

----------------------------------------------------------------------------
(* Properties of termProc *)

\* the pids of the first n kill calls
SignalledIn(n) == {signals[i].pid : i \in 1..n}

ListedPids == UNION {ElementsOf(listed[p]) : p \in Pids}

\* C15: on a platform other than Windows, every process pgrep -P listed and the
\* child itself are sent SIGINT, each one only after all of its listed children;
\* ESRCH does not end the traversal, any other kill error rejects termProc, and
\* termProc resolves to true once the traversal has finished.
C15_TreeSignalledPostOrder ==
    platform # "win32" =>
        /\ \A i \in 1..Len(signals) :
               /\ signals[i].signal = "SIGINT"
               /\ ElementsOf(listed[signals[i].pid]) \subseteq SignalledIn(i - 1)
               /\ signals[i].result \notin {"ok", "ESRCH"} =>
                      (i = Len(signals) /\ termResult = signals[i].result)
               /\ (signals[i].result = "ESRCH" /\ i = Len(signals) /\ signals[i].pid # 1) =>
                      (kstack # << >> /\ termResult = "running")
        /\ termResult = "true" =>
               /\ ListedPids \cup {1} \subseteq SignalledIn(Len(signals))
               /\ signals[Len(signals)].pid = 1
               /\ \A i \in 1..Len(signals) : signals[i].result \in {"ok", "ESRCH"}
        /\ (termResult = "running" /\ signals # << >> /\ kstack # << >>) =>
               signals[Len(signals)].result \in {"ok", "ESRCH"}
        /\ termResult \notin {"idle", "running", "true"} =>
               /\ kstack = << >>
               /\ signals[Len(signals)].result = termResult
        /\ (termResult # "idle" /\ kstack = << >>) =>
               (termResult = "true" <=> signals[Len(signals)].result \in {"ok", "ESRCH"})

C15_Witness ==
    /\ platform = "linux"
    /\ termResult = "true"
    /\ listed[1] = <<2>> /\ listed[2] = <<3>>
    /\ Len(signals) = 3
    /\ signals[1] = [pid |-> 3, signal |-> "SIGINT", result |-> "ok"]
    /\ signals[2] = [pid |-> 2, signal |-> "SIGINT", result |-> "ESRCH"]
    /\ signals[3] = [pid |-> 1, signal |-> "SIGINT", result |-> "ok"]

====
